---- MODULE Spec2Model ----
(***************************************************************************)
(* A model of ec2_manager (src/ec2_manager): the EC2Manager orchestrator   *)
(* of core.py and the entry points of cli.py, web_flask.py and web.py.     *)
(*                                                                         *)
(* The cloud provider and its SDK are the environment.  Their answers are  *)
(* drawn nondeterministically: a call may succeed, be rejected with a      *)
(* ClientError, or fail for want of credentials (NoCredentialsError /      *)
(* PartialCredentialsError); a waiter polls until it observes its target   *)
(* state or gives up with a WaiterError.                                   *)
(*                                                                         *)
(* The specifications share the variables:                                 *)
(*   Spec           stop_instance / start_instance / terminate_instance    *)
(*   SpecSingle     the same, called by a single caller                    *)
(*   SpecSingleFair the same, with calls that return, a waiter that sees   *)
(*                  its target state, and a provider that settles          *)
(*   SpecCreate     create_instance                                        *)
(*   SpecEntry      the CLI commands and HTTP routes, from their inputs to *)
(*                  their outcome                                          *)
(*   SpecList       list_instances                                         *)
(*   SpecVolumes    list_volumes                                           *)
(*   SpecInventory  generate_inventory_report                              *)
(*   SpecWaste      find_wasteful_resources                                *)
(*   SpecGate       the basic-auth gate of web_flask.py                    *)
(***************************************************************************)
EXTENDS Naturals, Sequences, FiniteSets, TLC

VARIABLES
    provState,   \* lifecycle: the provider's state of the instance
    call,        \* lifecycle: per caller, the invocation in progress
    crt,         \* create: the create_instance invocation in progress
    minted,      \* create: the tokens generate_client_token returned, in order
    wire,        \* create: the tokens of the run requests the provider received
    launched,    \* create: provider's idempotency table, token -> instances made
    instState,   \* create: provider's state of the instance being waited on
    ent,         \* entry: the CLI command or HTTP request in progress
    lst,         \* listing: the list_instances / list_volumes call in progress
    rep,         \* reports: the report in progress
    gate         \* web_flask: the request before the basic-auth gate

lcVars == <<provState, call>>
crVars == <<crt, minted, wire, launched, instState>>
enVars == <<ent>>
rpVars == <<lst, rep, gate>>
vars ==
    <<provState, call, crt, minted, wire, launched, instState, ent,
      lst, rep, gate>>

(***************************************************************************)
(* Instance states (spec.md section 3; the literals of core.py 146-182).   *)
(***************************************************************************)
InstanceStates ==
    {"pending", "running", "stopping", "stopped", "shutting-down", "terminated"}

NoMessage == <<>>

\* The number of concurrent callers of the lifecycle operations.
NumCallers == 2
Callers == 1..NumCallers

LifecycleOps == {"stop", "start", "terminate"}

(***************************************************************************)
(* The three lifecycle methods, after the state has been read.  Each gives *)
(* the provider calls the method goes on to make, in order ("mutate" is    *)
(* stop_instances / start_instances / terminate_instances, "wait" is       *)
(* waiter.wait), whether those calls sit inside the method's try block,    *)
(* and the dictionary it returns once they have succeeded.  A Message is a *)
(* tuple of words; NoMessage is a result without the key.                  *)
(***************************************************************************)
stop_instance_NoAlreadyCheck(state) ==
    IF state = "stopping"
    THEN [calls |-> <<"wait">>, inTry |-> FALSE,
          ret |-> [State |-> "stopped", Message |-> <<"Already", "stopped">>]]
    ELSE IF state # "running"
    THEN [calls |-> <<>>, inTry |-> FALSE,
          ret |-> [State |-> state,
                   Message |-> <<"Not", "in", "running", "state">>]]
    ELSE [calls |-> <<"mutate", "wait">>, inTry |-> TRUE,
          ret |-> [State |-> "stopped", Message |-> NoMessage]]

stop_instance_NoWait(state) ==
    IF state \in {"stopped", "stopping"}
    THEN [calls |-> <<>>, inTry |-> FALSE,
          ret |-> [State |-> "stopped", Message |-> <<"Already", "stopped">>]]
    ELSE IF state # "running"
    THEN [calls |-> <<>>, inTry |-> FALSE,
          ret |-> [State |-> state,
                   Message |-> <<"Not", "in", "running", "state">>]]
    ELSE [calls |-> <<"mutate", "wait">>, inTry |-> TRUE,
          ret |-> [State |-> "stopped", Message |-> NoMessage]]

stop_instance_LocalRetry(state) ==
    IF state \in {"stopped", "stopping"}
    THEN [calls |-> IF state = "stopping" THEN <<"wait">> ELSE <<>>,
          inTry |-> FALSE,
          ret |-> [State |-> "stopped", Message |-> <<"Already", "stopped">>]]
    ELSE IF state # "running"
    THEN [calls |-> <<>>, inTry |-> FALSE,
          ret |-> [State |-> state,
                   Message |-> <<"Not", "in", "running", "state">>]]
    ELSE [calls |-> <<"mutate", "mutate", "wait">>, inTry |-> TRUE,
          ret |-> [State |-> "stopped", Message |-> NoMessage]]

stop_instance_RereadsBeforeStop(state) ==
    IF state \in {"stopped", "stopping"}
    THEN [calls |-> IF state = "stopping" THEN <<"wait">> ELSE <<>>,
          inTry |-> FALSE,
          ret |-> [State |-> "stopped", Message |-> <<"Already", "stopped">>]]
    ELSE IF state # "running"
    THEN [calls |-> <<>>, inTry |-> FALSE,
          ret |-> [State |-> state,
                   Message |-> <<"Not", "in", "running", "state">>]]
    ELSE [calls |-> <<"read", "mutate", "wait">>, inTry |-> TRUE,
          ret |-> [State |-> "stopped", Message |-> NoMessage]]

stop_instance_WaitWithoutStop(state) ==
    IF state \in {"stopped", "stopping"}
    THEN [calls |-> IF state = "stopping" THEN <<"wait">> ELSE <<>>,
          inTry |-> FALSE,
          ret |-> [State |-> "stopped", Message |-> <<"Already", "stopped">>]]
    ELSE IF state # "running"
    THEN [calls |-> <<>>, inTry |-> FALSE,
          ret |-> [State |-> state,
                   Message |-> <<"Not", "in", "running", "state">>]]
    ELSE [calls |-> <<"wait">>, inTry |-> TRUE,
          ret |-> [State |-> "stopped", Message |-> NoMessage]]

stop_instance(state) ==
    IF state \in {"stopped", "stopping"}
    THEN [calls |-> IF state = "stopping" THEN <<"wait">> ELSE <<>>,
          inTry |-> FALSE,
          ret |-> [State |-> "stopped", Message |-> <<"Already", "stopped">>]]
    ELSE IF state # "running"
    THEN [calls |-> <<>>, inTry |-> FALSE,
          ret |-> [State |-> state,
                   Message |-> <<"Not", "in", "running", "state">>]]
    ELSE [calls |-> <<"mutate", "wait">>, inTry |-> TRUE,
          ret |-> [State |-> "stopped", Message |-> NoMessage]]

start_instance_NoEligibilityCheck(state) ==
    IF state \in {"running", "pending"}
    THEN [calls |-> IF state = "pending" THEN <<"wait">> ELSE <<>>,
          inTry |-> FALSE,
          ret |-> [State |-> "running", Message |-> <<"Already", "running">>]]
    ELSE [calls |-> <<"mutate", "wait">>, inTry |-> TRUE,
          ret |-> [State |-> "running", Message |-> NoMessage]]

start_instance_MessageAfterStart(state) ==
    IF state \in {"running", "pending"}
    THEN [calls |-> IF state = "pending" THEN <<"wait">> ELSE <<>>,
          inTry |-> FALSE,
          ret |-> [State |-> "running", Message |-> <<"Already", "running">>]]
    ELSE IF state # "stopped"
    THEN [calls |-> <<>>, inTry |-> FALSE,
          ret |-> [State |-> state,
                   Message |-> <<"Not", "in", "stopped", "state">>]]
    ELSE [calls |-> <<"mutate", "wait">>, inTry |-> TRUE,
          ret |-> [State |-> "running", Message |-> <<"Started">>]]

start_instance(state) ==
    IF state \in {"running", "pending"}
    THEN [calls |-> IF state = "pending" THEN <<"wait">> ELSE <<>>,
          inTry |-> FALSE,
          ret |-> [State |-> "running", Message |-> <<"Already", "running">>]]
    ELSE IF state # "stopped"
    THEN [calls |-> <<>>, inTry |-> FALSE,
          ret |-> [State |-> state,
                   Message |-> <<"Not", "in", "stopped", "state">>]]
    ELSE [calls |-> <<"mutate", "wait">>, inTry |-> TRUE,
          ret |-> [State |-> "running", Message |-> NoMessage]]

terminate_instance_WithEligibilityCheck(state) ==
    IF state \in {"shutting-down", "terminated"}
    THEN [calls |-> IF state = "shutting-down" THEN <<"wait">> ELSE <<>>,
          inTry |-> FALSE,
          ret |-> [State |-> "terminated",
                   Message |-> <<"Already", "terminated">>]]
    ELSE IF state \notin {"running", "stopped"}
    THEN [calls |-> <<>>, inTry |-> FALSE,
          ret |-> [State |-> state,
                   Message |-> <<"Not", "in", "running", "or", "stopped", "state">>]]
    ELSE [calls |-> <<"mutate", "wait">>, inTry |-> TRUE,
          ret |-> [State |-> "terminated", Message |-> NoMessage]]

terminate_instance_AlwaysTerminates(state) ==
    IF state = "shutting-down"
    THEN [calls |-> <<"wait">>, inTry |-> FALSE,
          ret |-> [State |-> "terminated",
                   Message |-> <<"Already", "terminated">>]]
    ELSE [calls |-> <<"mutate", "wait">>, inTry |-> TRUE,
          ret |-> [State |-> "terminated", Message |-> NoMessage]]

terminate_instance(state) ==
    IF state \in {"shutting-down", "terminated"}
    THEN [calls |-> IF state = "shutting-down" THEN <<"wait">> ELSE <<>>,
          inTry |-> FALSE,
          ret |-> [State |-> "terminated",
                   Message |-> <<"Already", "terminated">>]]
    ELSE [calls |-> <<"mutate", "wait">>, inTry |-> TRUE,
          ret |-> [State |-> "terminated", Message |-> NoMessage]]

LifecyclePlan(op, state) ==
    CASE op = "stop" -> stop_instance(state)
      [] op = "start" -> start_instance(state)
      [] op = "terminate" -> terminate_instance(state)

\* The state each method's waiter waits for: get_waiter("instance_stopped"),
\* get_waiter("instance_running"), get_waiter("instance_terminated").
WaiterState(op) ==
    CASE op = "stop" -> "stopped"
      [] op = "start" -> "running"
      [] op = "terminate" -> "terminated"

\* What an exception raised by the mutating call or by the waiter becomes:
\* inside the try block NoCredentialsError/PartialCredentialsError become
\* AWSAuthError and ClientError becomes OperationError; a WaiterError, and
\* anything raised outside the try block, leaves the method as it is.
LifecycleExcept(inTry, exc) ==
    IF inTry /\ exc = "NoCredentialsError" THEN "AWSAuthError"
    ELSE IF inTry /\ exc = "ClientError" THEN "OperationError"
    ELSE exc

\* _get_instance_state catches only the credential errors.
GetStateExcept(exc) ==
    IF exc = "NoCredentialsError" THEN "AWSAuthError" ELSE exc

(***************************************************************************)
(* The provider.  A settled state stays; a transitional state moves on.    *)
(* stop_instances takes running to stopping and is a no-op on an instance  *)
(* already stopping or stopped; start_instances takes stopped to pending   *)
(* and is a no-op on pending or running; terminate_instances takes every   *)
(* state but terminated to shutting-down.  Any other request is rejected   *)
(* with a ClientError (as any request may be, for other reasons).          *)
(***************************************************************************)
ProviderAccepts(op, s) ==
    CASE op = "stop" -> s \in {"running", "stopping", "stopped"}
      [] op = "start" -> s \in {"stopped", "pending", "running"}
      [] op = "terminate" -> TRUE

ProviderAfter(op, s) ==
    CASE op = "stop" -> IF s = "running" THEN "stopping" ELSE s
      [] op = "start" -> IF s = "stopped" THEN "pending" ELSE s
      [] op = "terminate" -> IF s = "terminated" THEN s ELSE "shutting-down"

Settled(s) ==
    CASE s = "pending" -> "running"
      [] s = "stopping" -> "stopped"
      [] s = "shutting-down" -> "terminated"
      [] OTHER -> s

(***************************************************************************)
(* One invocation of a lifecycle method.                                   *)
(*   pc     idle | run | done                                              *)
(*   state  the state _get_instance_state returned ("none" before)         *)
(*   todo   the provider calls still to make                               *)
(*   log    the provider calls made after the read, in order               *)
(*   seen   the state the waiter observed when it returned ("none")        *)
(*   res    the outcome: kind "ok" with the returned State and Message, or *)
(*          the exception that left the method                             *)
(***************************************************************************)
NoResult == [kind |-> "none", State |-> "none", Message |-> NoMessage]

IdleCall ==
    [pc |-> "idle", op |-> "none", state |-> "none", todo |-> <<>>,
     inTry |-> FALSE, log |-> <<>>, seen |-> "none", res |-> NoResult]

Raised(kind) == [kind |-> kind, State |-> "none", Message |-> NoMessage]

Returned(ret) == [kind |-> "ok", State |-> ret.State, Message |-> ret.Message]

\* The waiter call is logged once, however often it polls.
Logged(log, ev) ==
    IF ev = "wait" /\ log # <<>> /\ log[Len(log)] = "wait" THEN log
    ELSE Append(log, ev)

\* After the last provider call the method returns its dictionary.
Advance(inv, rest, log, seen) ==
    IF rest = <<>>
    THEN [inv EXCEPT !.pc = "done", !.todo = <<>>, !.log = log, !.seen = seen,
                     !.res = Returned(LifecyclePlan(inv.op, inv.state).ret)]
    ELSE [inv EXCEPT !.todo = rest, !.log = log, !.seen = seen]

Fail(inv, log, kind) ==
    [inv EXCEPT !.pc = "done", !.todo = <<>>, !.log = log, !.res = Raised(kind)]

\* A call of stop_instance, start_instance or terminate_instance begins with
\* state = self._get_instance_state(instance_id), and branches on it.
GetInstanceState(c, op) ==
    /\ call[c].pc = "idle"
    /\ \/ LET plan == LifecyclePlan(op, provState)
              inv == [IdleCall EXCEPT !.op = op, !.state = provState,
                                      !.pc = "run", !.inTry = plan.inTry]
          IN call' = [call EXCEPT ![c] = Advance(inv, plan.calls, <<>>, "none")]
       \/ \E exc \in {"NoCredentialsError", "ClientError"} :
            call' = [call EXCEPT ![c] =
                Fail([IdleCall EXCEPT !.op = op], <<>>, GetStateExcept(exc))]
    /\ UNCHANGED <<provState, crVars, enVars, rpVars>>

\* The caller has its result (or its exception) and may call again.
Return(c) ==
    /\ call[c].pc = "done"
    /\ call' = [call EXCEPT ![c] = IdleCall]
    /\ UNCHANGED <<provState, crVars, enVars, rpVars>>

\* self.ec2_client.stop_instances / start_instances / terminate_instances.
Mutate(c) ==
    /\ call[c].pc = "run"
    /\ call[c].todo # <<>>
    /\ Head(call[c].todo) = "mutate"
    /\ UNCHANGED <<crVars, enVars, rpVars>>
    /\ LET log == Logged(call[c].log, "mutate")
       IN \/ /\ ProviderAccepts(call[c].op, provState)
             /\ provState' = ProviderAfter(call[c].op, provState)
             /\ call' = [call EXCEPT
                    ![c] = Advance(call[c], Tail(call[c].todo), log, "none")]
          \/ /\ \E exc \in {"NoCredentialsError", "ClientError"} :
                  call' = [call EXCEPT ![c] =
                      Fail(call[c], log, LifecycleExcept(call[c].inTry, exc))]
             /\ UNCHANGED provState

\* waiter.wait(InstanceIds=[instance_id]): one poll of the waiter.
WaiterPoll(c) ==
    /\ call[c].pc = "run"
    /\ call[c].todo # <<>>
    /\ Head(call[c].todo) = "wait"
    /\ UNCHANGED <<provState, crVars, enVars, rpVars>>
    /\ LET log == Logged(call[c].log, "wait")
       IN \/ /\ provState = WaiterState(call[c].op)
             /\ call' = [call EXCEPT ![c] =
                    Advance(call[c], Tail(call[c].todo),
                            Append(log, "waitok"), provState)]
          \/ /\ provState # WaiterState(call[c].op)
             /\ call' = [call EXCEPT ![c].log = log]
          \/ /\ provState # WaiterState(call[c].op)
             /\ call' = [call EXCEPT ![c] =
                    Fail(call[c], log, LifecycleExcept(call[c].inTry, "WaiterError"))]

ProviderSettle ==
    /\ Settled(provState) # provState
    /\ provState' = Settled(provState)
    /\ UNCHANGED <<call, crVars, enVars, rpVars>>

(***************************************************************************)
(* create_instance (core.py 77-134).                                       *)
(*                                                                         *)
(* The config's instance section either has ImageId / InstanceType or not, *)
(* and gives MinCount and MaxCount (default 1).  The SDK resends a request *)
(* whose response it did not receive (DEFAULT_BOTO_CONFIG allows it up to  *)
(* 10 attempts), with the same parameters and hence the same ClientToken;  *)
(* the provider keeps, per token, the instances it launched and answers a  *)
(* repeated token with them.  The attempts are not counted: after a lost   *)
(* response the SDK either sends the request again or gives up.            *)
(***************************************************************************)
\* The number of create_instance invocations.
MaxCreates == 2
\* The largest MaxCount a config asks for.
MaxLaunch == 2

Configs ==
    { cfg \in [ImageId : BOOLEAN, InstanceType : BOOLEAN,
               MinCount : 1..MaxLaunch, MaxCount : 1..MaxLaunch] :
        cfg.MinCount <= cfg.MaxCount }

\* uuid.uuid4(): a value no earlier call returned.  Tokens are numbered in
\* the order they are minted.
generate_client_token_Fixed(earlier) == 1

generate_client_token(earlier) == Len(earlier) + 1

\* The SDK checks the parameters against the service model before it sends
\* anything: a None ImageId or InstanceType is not a string.
ParamsValid(cfg) == cfg.ImageId /\ cfg.InstanceType

\* Lines 120-124: what follows a run response with these instances.
AfterRun_NoEmptyCheck(instances) ==
    IF instances = <<>>
    THEN [raise |-> "IndexError", instance_id |-> 0]
    ELSE [raise |-> "none", instance_id |-> instances[1]]

AfterRun(instances) ==
    IF instances = <<>>
    THEN [raise |-> "OperationError", instance_id |-> 0]
    ELSE [raise |-> "none", instance_id |-> instances[1]]

\* Lines 129-134: the dictionary returned, built from the reloaded resource.
CreateReturn_FromRunResponse(inv) ==
    [kind |-> "ok", InstanceId |-> inv.instance_id, State |-> inv.respState]

CreateReturn(inv) ==
    [kind |-> "ok", InstanceId |-> inv.instance_id, State |-> inv.reloaded]

\* Lines 113-118: the except clauses around run_instances.
RunExcept(exc) ==
    IF exc = "NoCredentialsError" THEN "AWSAuthError"
    ELSE IF exc = "ClientError" THEN "OperationError"
    ELSE exc

(***************************************************************************)
(* One invocation of create_instance.                                      *)
(*   pc         idle | run | wait | reload | done                          *)
(*   sends      none | once | again: how often the SDK has sent the run    *)
(*              request of this invocation                                 *)
(*   gotResp    a run response reached the method; resp its Instances      *)
(*   respState  the instance's state in that response                      *)
(*   waitSaw    the state the waiter observed when it returned             *)
(*   reloaded   the state inst_res.reload() read                           *)
(*   log        the provider calls the method made, in order               *)
(***************************************************************************)
NoCreateResult == [kind |-> "none", InstanceId |-> 0, State |-> "none"]

CreateRaised(kind) == [kind |-> kind, InstanceId |-> 0, State |-> "none"]

NoConfig == [ImageId |-> FALSE, InstanceType |-> FALSE, MinCount |-> 1, MaxCount |-> 1]

IdleCreate ==
    [pc |-> "idle", cfg |-> NoConfig, token |-> 0, sends |-> "none",
     gotResp |-> FALSE, resp |-> <<>>, respState |-> "none", instance_id |-> 0,
     waitSaw |-> "none", reloaded |-> "none", log |-> <<>>,
     res |-> NoCreateResult]

CreateFail(inv, log, kind) ==
    [inv EXCEPT !.pc = "done", !.log = log, !.res = CreateRaised(kind)]

\* The instances the provider has launched, over all tokens.
RECURSIVE SumLaunched(_, _)
SumLaunched(table, toks) ==
    IF toks = {} THEN 0
    ELSE LET t == CHOOSE x \in toks : TRUE
         IN Len(table[t].ids) + SumLaunched(table, toks \ {t})

NumInstances == SumLaunched(launched, DOMAIN launched)

\* n consecutive fresh instance ids, the first after `last`.
FreshIds(last, n) == [k \in 1..n |-> last + k]

\* The provider's handling of a run request: a token it has seen gets the
\* instances launched for it; a new token launches n instances.
ProviderRun(table, token, cfg, n) ==
    IF token \in DOMAIN table THEN table
    ELSE table @@ (token :> [ids |-> FreshIds(SumLaunched(table, DOMAIN table), n),
                             MaxCount |-> cfg.MaxCount])

\* Lines 83-111: read the config, mint the token, build the parameters.
CreateInvoke(cfg) ==
    /\ crt.pc \in {"idle", "done"}
    /\ Len(minted) < MaxCreates
    /\ LET token == generate_client_token(minted)
       IN /\ minted' = Append(minted, token)
          /\ crt' = [IdleCreate EXCEPT !.pc = "run", !.cfg = cfg, !.token = token]
    /\ instState' = "none"
    /\ UNCHANGED <<wire, launched, lcVars, enVars, rpVars>>

\* Line 114: resp = self.ec2_client.run_instances(**params).
RunInstances ==
    /\ crt.pc = "run"
    /\ UNCHANGED <<minted, lcVars, enVars, rpVars>>
    /\ LET log == IF crt.log = <<>> THEN <<"run">> ELSE crt.log
       IN \/ \* the SDK refuses the parameters and sends nothing
             /\ ~ParamsValid(crt.cfg)
             /\ crt' = CreateFail(crt, log, RunExcept("ParamValidationError"))
             /\ UNCHANGED <<wire, launched, instState>>
          \/ \* the request is rejected, or cannot be signed
             /\ ParamsValid(crt.cfg)
             /\ \E exc \in {"NoCredentialsError", "ClientError"} :
                    crt' = CreateFail(crt, log, RunExcept(exc))
             /\ UNCHANGED <<wire, launched, instState>>
          \/ \* the request reaches the provider
             /\ ParamsValid(crt.cfg)
             /\ \E n \in {0} \cup (crt.cfg.MinCount..crt.cfg.MaxCount) :
                  LET table == ProviderRun(launched, crt.token, crt.cfg, n)
                      first == crt.token \notin DOMAIN launched
                      state == IF first /\ n > 0 THEN "pending" ELSE instState
                      next == AfterRun(table[crt.token].ids)
                      sent == [crt EXCEPT !.log = log,
                                 !.sends = IF @ = "none" THEN "once" ELSE "again"]
                  IN /\ wire' = wire \cup {crt.token}
                     /\ launched' = table
                     /\ instState' = state
                     /\ \/ \* the response arrives
                           crt' = IF next.raise # "none"
                                  THEN [CreateFail(sent, log, next.raise)
                                          EXCEPT !.gotResp = TRUE,
                                                 !.resp = table[crt.token].ids]
                                  ELSE [sent EXCEPT !.pc = "wait",
                                          !.gotResp = TRUE,
                                          !.resp = table[crt.token].ids,
                                          !.respState = state,
                                          !.instance_id = next.instance_id]
                        \/ \* the response is lost: the SDK sends the request
                           \* again, or gives up
                           \/ crt' = sent
                           \/ crt' = CreateFail(sent, log, RunExcept("ConnectionError"))

\* Line 127: inst_res.wait_until_running(), one poll.
WaitUntilRunning ==
    /\ crt.pc = "wait"
    /\ UNCHANGED <<minted, wire, launched, instState, lcVars, enVars, rpVars>>
    /\ LET log == IF crt.log[Len(crt.log)] = "wait" THEN crt.log
                  ELSE Append(crt.log, "wait")
       IN \/ /\ instState = "running"
             /\ crt' = [crt EXCEPT !.pc = "reload", !.log = log,
                                   !.waitSaw = instState]
          \/ /\ instState # "running"
             /\ crt' = [crt EXCEPT !.log = log]
          \/ /\ instState # "running"
             /\ crt' = CreateFail(crt, log, "WaiterError")

\* Lines 128-134: inst_res.reload() and the return.
Reload ==
    /\ crt.pc = "reload"
    /\ UNCHANGED <<minted, wire, launched, instState, lcVars, enVars, rpVars>>
    /\ LET log == Append(crt.log, "reload")
       IN \/ LET read == [crt EXCEPT !.pc = "done", !.log = log,
                                     !.reloaded = instState]
             IN crt' = [read EXCEPT !.res = CreateReturn(read)]
          \/ \E exc \in {"NoCredentialsError", "ClientError"} :
                crt' = CreateFail(crt, log, exc)

\* The provider moves the new instance on; anyone else may stop, start or
\* terminate it meanwhile.  (Its state is followed while create_instance
\* is at work on it.)
InstanceMoves ==
    /\ crt.pc \in {"run", "wait", "reload"}
    /\ instState # "none"
    /\ \/ /\ Settled(instState) # instState
          /\ instState' = Settled(instState)
       \/ \E op \in LifecycleOps :
            /\ ProviderAccepts(op, instState)
            /\ ProviderAfter(op, instState) # instState
            /\ instState' = ProviderAfter(op, instState)
    /\ UNCHANGED <<crt, minted, wire, launched, lcVars, enVars, rpVars>>

(***************************************************************************)
(* Entry points: the CLI commands (cli.py), the Flask routes               *)
(* (web_flask.py) and the FastAPI routes (web.py) that obtain a manager.   *)
(*                                                                         *)
(* A request's inputs:                                                     *)
(*   credFault    none | construct | call: whether the SDK finds no usable *)
(*                credentials, and if so whether it says so when the       *)
(*                client is built or at the first request it must sign     *)
(*   regionGiven  the entry point found a region (--region, ?region=, the  *)
(*                AWS_REGION / AWS_DEFAULT_REGION it reads itself)         *)
(*   sdkRegion    the SDK can find a region by itself                      *)
(*   profileOk    AWS_PROFILE / AWS_DEFAULT_PROFILE is unset or names a    *)
(*                profile the SDK knows                                    *)
(*   configOk     load_config accepts the file (instance create)           *)
(*   regionsArg   regions were named for a report                          *)
(***************************************************************************)
Operations ==
    {"list_instances", "create_instance", "stop_instance", "start_instance",
     "terminate_instance", "list_volumes", "attach_volume", "detach_volume",
     "set_delete_on_termination", "generate_inventory_report",
     "find_wasteful_resources"}

\* The form routes of both web front ends.
PageOperations ==
    {"list_instances", "stop_instance", "start_instance", "terminate_instance",
     "list_volumes", "set_delete_on_termination", "generate_inventory_report",
     "find_wasteful_resources"}

\* The /api/ routes of web_flask.py.
ApiOperations ==
    {"list_instances", "start_instance", "stop_instance", "terminate_instance",
     "generate_inventory_report", "find_wasteful_resources"}

EntryPoints ==
    { [surface |-> "cli", op |-> o, api |-> FALSE] : o \in Operations }
    \cup { [surface |-> "flask", op |-> o, api |-> FALSE] : o \in PageOperations }
    \cup { [surface |-> "flask", op |-> o, api |-> TRUE] : o \in ApiOperations }
    \cup { [surface |-> "fastapi", op |-> o, api |-> FALSE] : o \in PageOperations }

CredFaults == {"none", "construct", "call"}

\* What runs before the manager is built, and the exception it may raise:
\* instance_create loads the config first (a rejected file is a ValueError);
\* web_flask.get_manager refuses to go on without a region.
BeforeManager(e) ==
    IF e.surface = "cli" /\ e.op = "create_instance" /\ ~e.configOk
    THEN "ValueError"
    ELSE IF e.surface = "flask" /\ ~e.regionGiven
    THEN "OperationError"
    ELSE "none"

\* EC2Manager.__init__: the except clause around the client construction.
InitExcept_Uncaught(exc) == exc

InitExcept(exc) ==
    IF exc = "NoCredentialsError" THEN "AWSAuthError" ELSE exc

\* The exceptions the construction of the session and its clients may
\* raise.  Which of several the SDK raises first is the SDK's business.
ConstructFaults(e) ==
    (IF e.credFault = "construct" THEN {"NoCredentialsError"} ELSE {})
    \cup (IF ~e.regionGiven /\ ~e.sdkRegion THEN {"NoRegionError"} ELSE {})
    \cup (IF ~e.profileOk THEN {"ProfileNotFound"} ELSE {})

\* The provider calls of each manager method, in order, each with the
\* except clauses that surround it: "both" (the credential errors and
\* ClientError), "creds" (the credential errors only) or "none".
Step(c, k) == [call |-> c, catch |-> k]

OperationSteps(op, regionsArg) ==
    LET regions == IF regionsArg THEN <<>>
                   ELSE <<Step("describe_regions", "creds")>>
    IN CASE op = "list_instances" ->
              <<Step("paginate", "creds"), Step("page", "none")>>
         [] op = "list_volumes" ->
              <<Step("paginate", "creds"), Step("page", "none")>>
         [] op = "create_instance" ->
              <<Step("run_instances", "both"), Step("wait", "none"),
                Step("reload", "none")>>
         [] op \in {"stop_instance", "start_instance", "terminate_instance"} ->
              <<Step("load", "creds"), Step("mutate", "both"),
                Step("wait", "both")>>
         [] op \in {"attach_volume", "detach_volume",
                    "set_delete_on_termination"} ->
              <<Step("request", "both")>>
         [] op = "generate_inventory_report" ->
              regions \o <<Step("client", "creds"), Step("page", "none")>>
         [] op = "find_wasteful_resources" ->
              regions \o <<Step("client", "none"), Step("page", "none"),
                           Step("page", "none"),
                           Step("get_metric_statistics", "none")>>

\* The except clauses: what an exception raised under them becomes.
Catch(k, exc) ==
    IF exc = "NoCredentialsError" /\ k \in {"both", "creds"} THEN "AWSAuthError"
    ELSE IF exc = "ClientError" /\ k = "both" THEN "OperationError"
    ELSE exc

\* get_paginator / paginate and the construction of a client send nothing;
\* every other step sends a request the SDK must sign.
SendsRequest(c) == c \notin {"paginate", "client"}

\* The exceptions a step may raise.  Without credentials the first request
\* cannot be signed; with them the provider may reject a request with a
\* ClientError, and a waiter gives up (or meets a rejection) with a
\* WaiterError.
StepFaults(c, credFault) ==
    IF ~SendsRequest(c) THEN {}
    ELSE IF credFault = "call" THEN {"NoCredentialsError"}
    ELSE IF c = "wait" THEN {"WaiterError"}
    ELSE {"ClientError"}

\* The except clauses of the CLI commands around the manager's method:
\* instance_list catches AWSAuthError, the two report commands nothing, the
\* others AWSAuthError and OperationError.
CliCatches(op) ==
    IF op = "list_instances" THEN {"AWSAuthError"}
    ELSE IF op \in {"generate_inventory_report", "find_wasteful_resources"}
    THEN {}
    ELSE {"AWSAuthError", "OperationError"}

\* How a run of an entry point ends, given the exception (or "none") that
\* reached it while it was at `phase`.  A CLI command prints its result, or
\* echoes the message of an exception it catches to the error stream and
\* exits with status 1 ("handled"); load_config and EC2Manager(...) stand
\* before its try block.  The Flask error handlers answer 401, 400 and 500;
\* web.py has no handlers.
Boundary(surface, op, phase, exc) ==
    IF surface = "cli"
    THEN IF exc = "none" THEN "result"
         ELSE IF phase = "operate" /\ exc \in CliCatches(op) THEN "handled"
         ELSE "uncaught"
    ELSE IF exc = "none" THEN "200"
    ELSE IF surface = "flask" /\ exc = "AWSAuthError" THEN "401"
    ELSE IF surface = "flask" /\ exc = "OperationError" THEN "400"
    ELSE "500"

IdleEntry ==
    [pc |-> "idle", surface |-> "cli", op |-> "list_instances", api |-> FALSE,
     credFault |-> "none", regionGiven |-> FALSE, sdkRegion |-> FALSE,
     profileOk |-> FALSE, configOk |-> FALSE, regionsArg |-> FALSE,
     built |-> FALSE, steps |-> <<>>, at |-> "none", err |-> "none",
     out |-> "none"]

EntryDone(e, exc) ==
    [e EXCEPT !.pc = "done", !.err = exc,
              !.out = Boundary(e.surface, e.op, e.pc, exc)]

Request(p, cf, rg, sr, po, co, ra) ==
    [IdleEntry EXCEPT !.pc = "begin", !.surface = p.surface, !.op = p.op,
       !.api = p.api, !.credFault = cf, !.regionGiven = rg, !.sdkRegion = sr,
       !.profileOk = po, !.configOk = co, !.regionsArg = ra]

\* load_config(config_path) / the region check of web_flask.get_manager.
Prepare ==
    /\ ent.pc = "begin"
    /\ UNCHANGED <<lcVars, crVars, rpVars>>
    /\ ent' = IF BeforeManager(ent) # "none"
              THEN EntryDone(ent, BeforeManager(ent))
              ELSE [ent EXCEPT !.pc = "construct"]

\* mgr = EC2Manager(region_name=...).
Construct ==
    /\ ent.pc = "construct"
    /\ UNCHANGED <<lcVars, crVars, rpVars>>
    /\ \/ /\ ConstructFaults(ent) = {}
          /\ ent' = [ent EXCEPT !.pc = "operate", !.built = TRUE,
                       !.steps = OperationSteps(ent.op, ent.regionsArg)]
       \/ \E exc \in ConstructFaults(ent) :
            ent' = EntryDone(ent, InitExcept(exc))

\* The manager's method, one provider call at a time: the call succeeds and
\* the method goes on (or returns after the last one; a lifecycle method
\* may return on the state it has read), or the call raises.  `at` is the
\* call that raised.
Operate ==
    /\ ent.pc = "operate"
    /\ UNCHANGED <<lcVars, crVars, rpVars>>
    /\ LET s == Head(ent.steps)
           rest == Tail(ent.steps)
           faults == StepFaults(s.call, ent.credFault)
       IN \/ /\ "NoCredentialsError" \notin faults
             /\ rest # <<>>
             /\ ent' = [ent EXCEPT !.steps = rest]
          \/ /\ "NoCredentialsError" \notin faults
             /\ rest = <<>> \/ s.call = "load"
             /\ ent' = EntryDone([ent EXCEPT !.steps = <<>>], "none")
          \/ \E exc \in faults :
                ent' = EntryDone([ent EXCEPT !.at = s.call], Catch(s.catch, exc))

(***************************************************************************)
(* find_wasteful_resources (core.py 306-373).                              *)
(*                                                                         *)
(* The report visits the target regions in order; in each it lists the     *)
(* volumes the provider returns for the filter status = available, then    *)
(* the instances, and asks CloudWatch for the CPU datapoints of each       *)
(* running one.  What the provider lists is drawn as it is read.  Every    *)
(* instance is given the datapoints CloudWatch holds for it, whether the   *)
(* report asks for them or not.  An average is kept as the exact fraction  *)
(* sum / len.                                                              *)
(***************************************************************************)
\* The most datapoints CloudWatch returns for an instance.
MaxPoints == 2
\* The most instances the provider lists during one report.
MaxScanned == 2

\* The Average of a datapoint, in percent.
CpuValues == {4, 6}

Thresholds == {5, 6}

TargetRegionLists == {<<"us-east-1">>, <<"us-east-1", "eu-west-1">>}

Datapoints == UNION {[1..n -> CpuValues] : n \in 0..MaxPoints}

RECURSIVE Sum(_)
Sum(seq) == IF seq = <<>> THEN 0 ELSE Head(seq) + Sum(Tail(seq))

\* Lines 325-328: None without datapoints, else sum(...) / len(datapoints).
NoAverage == [none |-> TRUE, num |-> 0, den |-> 1]

average_cpu_utilization_ZeroWhenEmpty(datapoints) ==
    [none |-> FALSE, num |-> Sum(datapoints),
     den |-> IF datapoints = <<>> THEN 1 ELSE Len(datapoints)]

average_cpu_utilization(datapoints) ==
    IF datapoints = <<>> THEN NoAverage
    ELSE [none |-> FALSE, num |-> Sum(datapoints), den |-> Len(datapoints)]

\* avg_cpu < idle_cpu_threshold, for avg_cpu = num / den.
BelowThreshold(avg, idle_cpu_threshold) ==
    avg.num < idle_cpu_threshold * avg.den

\* Lines 360-372: what one instance of a page adds to idle_instances.
IdleFindings(region, inst, idle_cpu_threshold) ==
    IF inst.State # "running" THEN <<>>
    ELSE LET avg_cpu == average_cpu_utilization(inst.points)
         IN IF ~avg_cpu.none /\ BelowThreshold(avg_cpu, idle_cpu_threshold)
            THEN <<[Region |-> region, InstanceId |-> inst.InstanceId,
                    AverageCPU14d |-> avg_cpu]>>
            ELSE <<>>

\* Lines 344-353: what one volume of a page adds to orphaned_volumes.
OrphanFindings(region, vols) ==
    [k \in 1..Len(vols) |->
        [Region |-> region, VolumeId |-> vols[k], State |-> "available"]]

(***************************************************************************)
(* One invocation of find_wasteful_resources.                              *)
(*   pc       volumes | instances | done                                   *)
(*   todo     the target regions still to visit, the current one first     *)
(*   scanned  the instances the provider has listed so far                 *)
(*   report   the two lists being built                                    *)
(*   res      none | ok (the report is returned) | the exception raised    *)
(***************************************************************************)
WasteStart(regions, thr) ==
    [pc |-> "volumes", todo |-> regions, idle_cpu_threshold |-> thr,
     scanned |-> <<>>,
     report |-> [idle_instances |-> <<>>, orphaned_volumes |-> <<>>],
     res |-> "none"]

\* Lines 335-353: the region's client, and its available volumes.
ScanVolumes ==
    /\ rep.pc = "volumes"
    /\ UNCHANGED <<lcVars, crVars, enVars, lst, gate>>
    /\ \/ \E vols \in {<<>>, <<"vol-1">>} :
            rep' = [rep EXCEPT !.pc = "instances",
                      !.report.orphaned_volumes =
                          @ \o OrphanFindings(Head(rep.todo), vols)]
       \/ \E exc \in {"NoCredentialsError", "ClientError"} :
            rep' = [rep EXCEPT !.pc = "done", !.res = exc]

\* Lines 357-372: the next instance of the region's pages.
ScanInstance ==
    /\ rep.pc = "instances"
    /\ Len(rep.scanned) < MaxScanned
    /\ UNCHANGED <<lcVars, crVars, enVars, lst, gate>>
    /\ \E state \in {"running", "stopped"}, points \in Datapoints :
         LET inst == [InstanceId |-> Len(rep.scanned) + 1,
                      Region |-> Head(rep.todo), State |-> state,
                      points |-> points]
         IN \/ rep' = [rep EXCEPT !.scanned = Append(@, inst),
                         !.report.idle_instances =
                             @ \o IdleFindings(Head(rep.todo), inst,
                                               rep.idle_cpu_threshold)]
            \/ /\ state = "running"
               /\ rep' = [rep EXCEPT !.scanned = Append(@, inst),
                            !.pc = "done", !.res = "ClientError"]

\* The region's pages are exhausted: the next region, or return report.
NextRegion ==
    /\ rep.pc = "instances"
    /\ UNCHANGED <<lcVars, crVars, enVars, lst, gate>>
    /\ rep' = IF Tail(rep.todo) = <<>>
              THEN [rep EXCEPT !.pc = "done", !.todo = <<>>, !.res = "ok"]
              ELSE [rep EXCEPT !.pc = "volumes", !.todo = Tail(@)]

(***************************************************************************)
(* list_instances (core.py 42-75).                                         *)
(*                                                                         *)
(* The region holds some instances, each with its tags (a set of           *)
(* <<key, value>> pairs, one per key) and its state.  The method builds    *)
(* the filters and hands them to the provider, which selects the           *)
(* instances: an instance matches a filter when one of the filter's Values *)
(* is its value for the filter's Name, and is returned when it matches     *)
(* every filter.  The paginator delivers the selected instances in pages,  *)
(* each page grouping its instances into reservations as the provider      *)
(* pleases.                                                                *)
(***************************************************************************)
\* The number of instances in the region.
MaxListed == 2

TagSets ==
    {{}, {<<"Name", "web">>}, {<<"Name", "db">>},
     {<<"Name", "web">>, <<"Env", "prod">>}}

\* tags_filter: a list of (key, value) pairs (empty: no --tag given).
TagFilters ==
    {<<>>, <<<<"Name", "web">>>>, <<<<"Name", "web">>, <<"Env", "prod">>>>,
     <<<<"Name", "web">>, <<"Name", "db">>>>}

\* states: a list of state names (empty: None).
StateFilters == {<<>>, <<"running">>, <<"running", "stopped">>}

Regions ==
    [1..MaxListed -> [tags : TagSets, State : {"running", "stopped"}]]

\* Lines 43-48: the Filters parameter.  f"tag:{key}" is <<"tag", key>>.
BuildFilters(tags_filter, states) ==
    [k \in 1..Len(tags_filter) |->
        [Name |-> <<"tag", tags_filter[k][1]>>,
         Values |-> <<tags_filter[k][2]>>]]
    \o (IF states # <<>>
        THEN <<[Name |-> <<"instance-state-name">>, Values |-> states]>>
        ELSE <<>>)

\* The provider's reading of one filter, and of all of them.
MatchesFilter(inst, f) ==
    \E j \in 1..Len(f.Values) :
        IF f.Name[1] = "tag" THEN <<f.Name[2], f.Values[j]>> \in inst.tags
        ELSE f.Name[1] = "instance-state-name" /\ inst.State = f.Values[j]

\* paginate(Filters=filters) if filters else paginate(): the ids of the
\* instances the provider will deliver, in its order.
RECURSIVE Selected(_, _, _)
Selected(region, filters, from) ==
    IF from > Len(region) THEN <<>>
    ELSE (IF \A k \in 1..Len(filters) : MatchesFilter(region[from], filters[k])
          THEN <<from>> ELSE <<>>)
         \o Selected(region, filters, from + 1)

\* Line 71: the value of the tag whose Key is Name, or None.
NameTag(inst) ==
    IF \E t \in inst.tags : t[1] = "Name"
    THEN (CHOOSE t \in inst.tags : t[1] = "Name")[2]
    ELSE "None"

\* Lines 60-74: the records of one reservation's instances.
ReservationRecords_FirstOnly(r) ==
    IF r.Instances = <<>> THEN <<>>
    ELSE <<[AccountId |-> r.OwnerId,
            InstanceId |-> r.Instances[1].InstanceId,
            State |-> r.Instances[1].State,
            NameTag |-> NameTag(r.Instances[1])]>>

ReservationRecords(r) ==
    [k \in 1..Len(r.Instances) |->
        [AccountId |-> r.OwnerId,
         InstanceId |-> r.Instances[k].InstanceId,
         State |-> r.Instances[k].State,
         NameTag |-> NameTag(r.Instances[k])]]

\* Lines 58-74: the records of one page.
RECURSIVE PageRecords(_)
PageRecords(reservations) ==
    IF reservations = <<>> THEN <<>>
    ELSE ReservationRecords(Head(reservations))
         \o PageRecords(Tail(reservations))

\* The provider's description of the instances with these ids.
Described(region, ids) ==
    [k \in 1..Len(ids) |->
        [InstanceId |-> ids[k], State |-> region[ids[k]].State,
         tags |-> region[ids[k]].tags]]

\* A page of the first k instances still to deliver, in two reservations
\* split after the first j (an empty one is left out).
Page(region, ids, k, j) ==
    SelectSeq(<<[OwnerId |-> "acct", Instances |-> Described(region, SubSeq(ids, 1, j))],
                [OwnerId |-> "acct", Instances |-> Described(region, SubSeq(ids, j + 1, k))]>>,
              LAMBDA r : r.Instances # <<>>)

(***************************************************************************)
(* One invocation of list_instances.                                       *)
(*   filters  the Filters built                                            *)
(*   pending  the ids the paginator has still to deliver                   *)
(*   results  the records collected                                        *)
(*   res      none | ok (results is returned) | the exception raised       *)
(***************************************************************************)
ListStart(region, tags_filter, states) ==
    [pc |-> "pages", region |-> region, tags_filter |-> tags_filter,
     states |-> states, filters |-> BuildFilters(tags_filter, states),
     pending |-> Selected(region, BuildFilters(tags_filter, states), 1),
     results |-> <<>>, res |-> "none"]

\* Lines 57-74: the paginator fetches the next page, and it is flattened.
ListPage ==
    /\ lst.pc = "pages"
    /\ lst.pending # <<>>
    /\ UNCHANGED <<lcVars, crVars, enVars, rep, gate>>
    /\ \/ \E k \in 1..Len(lst.pending) : \E j \in 0..k :
            lst' = [lst EXCEPT
                      !.pending = SubSeq(@, k + 1, Len(@)),
                      !.results = @ \o PageRecords(Page(lst.region, lst.pending, k, j))]
       \/ \E exc \in {"NoCredentialsError", "ClientError"} :
            lst' = [lst EXCEPT !.pc = "done", !.res = exc]

\* Line 75: no page is left.
ListReturn ==
    /\ lst.pc = "pages"
    /\ lst.pending = <<>>
    /\ UNCHANGED <<lcVars, crVars, enVars, rep, gate>>
    /\ lst' = [lst EXCEPT !.pc = "done", !.res = "ok"]

(***************************************************************************)
(* list_volumes (core.py 197-224).                                         *)
(*                                                                         *)
(* The region holds some volumes, each with its attachment list; a volume  *)
(* without attachments is available, any other in-use.  The provider       *)
(* selects by the status filter and the paginator delivers the selected    *)
(* volumes in pages.                                                       *)
(***************************************************************************)
\* The number of volumes in the region.
MaxVolumes == 2

Attachment(id, device) == [InstanceId |-> id, Device |-> device]

AttachmentLists ==
    {<<>>, <<Attachment("i-1", "/dev/sdf")>>, <<Attachment("i-2", "/dev/sdf")>>,
     <<Attachment("i-1", "/dev/sdf"), Attachment("i-2", "/dev/sdg")>>,
     <<Attachment("i-2", "/dev/sdg"), Attachment("i-1", "/dev/sdf")>>}

VolumeRegions == [1..MaxVolumes -> AttachmentLists]

\* status_filter ("None": not given).
StatusFilters == {"None", "available", "in-use"}

VolumeState(attachments) ==
    IF attachments = <<>> THEN "available" ELSE "in-use"

\* Lines 198-204: the ids of the volumes the provider will deliver.
RECURSIVE SelectedVolumes(_, _, _)
SelectedVolumes(region, status_filter, from) ==
    IF from > Len(region) THEN <<>>
    ELSE (IF status_filter = "None" \/ VolumeState(region[from]) = status_filter
          THEN <<from>> ELSE <<>>)
         \o SelectedVolumes(region, status_filter, from + 1)

\* Lines 211-222: the record of one volume of a page.
VolumeRecord_Reversed(vol) ==
    [VolumeId |-> vol.VolumeId, State |-> vol.State,
     AttachedInstances |->
        [k \in 1..Len(vol.Attachments) |->
            vol.Attachments[Len(vol.Attachments) + 1 - k].InstanceId]]

VolumeRecord(vol) ==
    [VolumeId |-> vol.VolumeId, State |-> vol.State,
     AttachedInstances |->
        [k \in 1..Len(vol.Attachments) |-> vol.Attachments[k].InstanceId]]

\* The provider's description of the volumes with these ids.
DescribedVolumes(region, ids) ==
    [k \in 1..Len(ids) |->
        [VolumeId |-> ids[k], State |-> VolumeState(region[ids[k]]),
         Attachments |-> region[ids[k]]]]

\* Lines 209-223: the records of one page's volumes.
VolumePageRecords(vols) == [k \in 1..Len(vols) |-> VolumeRecord(vols[k])]

VolumesStart(region, status_filter) ==
    [pc |-> "pages", region |-> region, status_filter |-> status_filter,
     pending |-> SelectedVolumes(region, status_filter, 1),
     results |-> <<>>, res |-> "none"]

\* Lines 209-223: the paginator fetches the next page.
VolumesPage ==
    /\ lst.pc = "pages"
    /\ lst.pending # <<>>
    /\ UNCHANGED <<lcVars, crVars, enVars, rep, gate>>
    /\ \/ \E k \in 1..Len(lst.pending) :
            lst' = [lst EXCEPT
                      !.pending = SubSeq(@, k + 1, Len(@)),
                      !.results = @ \o VolumePageRecords(
                          DescribedVolumes(lst.region, SubSeq(lst.pending, 1, k)))]
       \/ \E exc \in {"NoCredentialsError", "ClientError"} :
            lst' = [lst EXCEPT !.pc = "done", !.res = exc]

\* Line 224: no page is left.
VolumesReturn ==
    /\ lst.pc = "pages"
    /\ lst.pending = <<>>
    /\ UNCHANGED <<lcVars, crVars, enVars, rep, gate>>
    /\ lst' = [lst EXCEPT !.pc = "done", !.res = "ok"]

(***************************************************************************)
(* generate_inventory_report (core.py 263-304).                            *)
(*                                                                         *)
(* The target regions are the ones named, or the ones describe_regions     *)
(* returns.  For each in turn a client for that region is built and its    *)
(* describe_instances pages are read; every instance becomes a record.     *)
(* A record notes, beside the Region the code writes, the region of the    *)
(* client it was read through and that region's place in the target list.  *)
(***************************************************************************)
\* The most instances the provider lists during one inventory report.
MaxRecords == 2

\* The regions argument (empty: None, all enabled regions).
RegionArgs ==
    {<<>>, <<"us-east-1">>, <<"us-east-1", "eu-west-1">>,
     <<"eu-west-1", "us-east-1">>}

\* What describe_regions(AllRegions=False) returns.
EnabledRegions == <<"us-east-1", "eu-west-1">>

\* Lines 282-283, the except clause around the construction of the region's
\* client; _all_regions (266-267) has the same one.
InventoryExcept(exc) ==
    IF exc = "NoCredentialsError" THEN "AWSAuthError" ELSE exc

\* An exception leaves the method: nothing is returned.
RaiseFrom_SkipRegion(inv, exc) ==
    IF inv.pc = "regions" \/ inv.at >= Len(inv.target)
    THEN [inv EXCEPT !.pc = "done", !.res = exc, !.fault = exc]
    ELSE [inv EXCEPT !.pc = "client", !.at = @ + 1, !.fault = exc]

RaiseFrom(inv, exc) ==
    [inv EXCEPT !.pc = "done", !.res = exc, !.fault = exc]

\* Lines 289-303: the record of an instance read in the loop for `region`.
InventoryRecord(region, inst) ==
    [Region |-> region, InstanceId |-> inst.InstanceId, State |-> inst.State,
     readFrom |-> inst.readFrom, pos |-> inst.pos]

(***************************************************************************)
(* One invocation of generate_inventory_report.                            *)
(*   pc        regions | client | pages | done                             *)
(*   target    target_regions;  at  the index of the region in hand        *)
(*   client    the region of the client in hand                            *)
(*   opened    the regions a client was built for, in order                *)
(*   results   the records collected                                       *)
(*   fault     the provider exception met, if any                          *)
(*   res       none | ok | the exception that left the method              *)
(*   returned  whether the caller received a list, and the list            *)
(***************************************************************************)
InventoryStart(regions) ==
    [pc |-> "regions", regions |-> regions, target |-> <<>>, at |-> 0,
     client |-> "none", opened |-> <<>>, results |-> <<>>, fault |-> "none",
     res |-> "none", returned |-> [given |-> FALSE, records |-> <<>>]]

InventoryReturn(inv) ==
    [inv EXCEPT !.pc = "done", !.res = "ok",
                !.returned = [given |-> TRUE, records |-> inv.results]]

\* Line 271: target_regions = regions or self._all_regions().
TargetRegions ==
    /\ rep.pc = "regions"
    /\ UNCHANGED <<lcVars, crVars, enVars, lst, gate>>
    /\ \/ /\ rep.regions # <<>>
          /\ rep' = [rep EXCEPT !.pc = "client", !.target = rep.regions,
                                !.at = 1]
       \/ /\ rep.regions = <<>>
          /\ \/ rep' = [rep EXCEPT !.pc = "client", !.target = EnabledRegions,
                                   !.at = 1]
             \/ \E exc \in {"NoCredentialsError", "ClientError"} :
                    rep' = RaiseFrom(rep, InventoryExcept(exc))

\* Lines 274-284: the session and client of the region in hand.
RegionClient ==
    /\ rep.pc = "client"
    /\ UNCHANGED <<lcVars, crVars, enVars, lst, gate>>
    /\ \/ rep' = [rep EXCEPT !.pc = "pages", !.client = rep.target[rep.at],
                             !.opened = Append(@, rep.target[rep.at])]
       \/ rep' = RaiseFrom(rep, InventoryExcept("NoCredentialsError"))

\* Lines 285-303: the next page of the region, of one instance.
RegionPage ==
    /\ rep.pc = "pages"
    /\ Len(rep.results) < MaxRecords
    /\ UNCHANGED <<lcVars, crVars, enVars, lst, gate>>
    /\ \/ \E state \in {"running", "stopped"} :
            LET inst == [InstanceId |-> Len(rep.results) + 1, State |-> state,
                         readFrom |-> rep.client, pos |-> rep.at]
            IN rep' = [rep EXCEPT !.results =
                         Append(@, InventoryRecord(rep.target[rep.at], inst))]
       \/ \E exc \in {"NoCredentialsError", "ClientError"} :
            rep' = RaiseFrom(rep, exc)

\* The region's pages are exhausted: the next region, or return results.
RegionDone ==
    /\ rep.pc = "pages"
    /\ UNCHANGED <<lcVars, crVars, enVars, lst, gate>>
    /\ rep' = IF rep.at = Len(rep.target) THEN InventoryReturn(rep)
              ELSE [rep EXCEPT !.pc = "client", !.at = @ + 1]

(***************************************************************************)
(* The basic-auth gate of web_flask.py (lines 32-53).                      *)
(*                                                                         *)
(* auth_user and auth_pass are read from EC2_MAN_WEB_USER and              *)
(* EC2_MAN_WEB_PASS when the module is loaded: "None" when the variable is *)
(* unset, else its value, which may be the empty string.  A request        *)
(* carries no Authorization header (request.authorization is None: given   *)
(* is FALSE) or a Basic one with a username and a password.                *)
(***************************************************************************)
EnvValues == {"None", "", "admin", "s3cret"}

NoAuthorization == [given |-> FALSE, username |-> "", password |-> ""]

Presented ==
    {NoAuthorization}
    \cup [given : {TRUE}, username : {"", "admin", "s3cret"},
                          password : {"", "admin", "s3cret"}]

\* Python's `not x` for None and for a string.
Not(x) == x \in {"None", ""}

\* _require_auth: "None" lets the request through, "401" answers it.
require_auth_BothNeeded(auth_user, auth_pass, auth) ==
    IF Not(auth_user) \/ Not(auth_pass) THEN "None"
    ELSE IF ~auth.given THEN "401"
    ELSE IF auth.username # auth_user \/ auth.password # auth_pass THEN "401"
    ELSE "None"

require_auth(auth_user, auth_pass, auth) ==
    IF Not(auth_user) /\ Not(auth_pass) THEN "None"
    ELSE IF ~auth.given THEN "401"
    ELSE IF auth.username # auth_user \/ auth.password # auth_pass THEN "401"
    ELSE "None"

GateRequest(auth_user, auth_pass, auth) ==
    [pc |-> "before", auth_user |-> auth_user, auth_pass |-> auth_pass,
     auth |-> auth, response |-> "none"]

\* before_request: the response of _require_auth, if any, is the answer.
BeforeRequest ==
    /\ gate.pc = "before"
    /\ UNCHANGED <<lcVars, crVars, enVars, lst, rep>>
    /\ LET unauth == require_auth(gate.auth_user, gate.auth_pass, gate.auth)
       IN gate' = [gate EXCEPT !.pc = "done",
                     !.response = IF unauth # "None" THEN unauth ELSE "passed"]

(***************************************************************************)
(* The specifications.  Each leaves the other two parts of the state       *)
(* unused and empty.                                                       *)
(***************************************************************************)
LifecycleUnused == provState = "none" /\ call = <<>>

CreateUnused ==
    /\ crt = <<>>
    /\ minted = <<>>
    /\ wire = {}
    /\ launched = <<>>
    /\ instState = "none"

EntryUnused == ent = <<>>

ReportsUnused == lst = <<>> /\ rep = <<>> /\ gate = <<>>

Init ==
    /\ provState \in InstanceStates
    /\ call = [c \in Callers |-> IdleCall]
    /\ CreateUnused
    /\ EntryUnused
    /\ ReportsUnused

Next ==
    \/ \E c \in Callers, op \in LifecycleOps : GetInstanceState(c, op)
    \/ \E c \in Callers : Mutate(c)
    \/ \E c \in Callers : WaiterPoll(c)
    \/ \E c \in Callers : Return(c)
    \/ ProviderSettle

Spec == Init /\ [][Next]_vars

\* One caller alone: the other callers never call.
SingleCaller == 1

NextSingle ==
    \/ \E op \in LifecycleOps : GetInstanceState(SingleCaller, op)
    \/ Mutate(SingleCaller)
    \/ WaiterPoll(SingleCaller)
    \/ Return(SingleCaller)
    \/ ProviderSettle

SpecSingle == Init /\ [][NextSingle]_vars

\* The poll in which the waiter finds the instance in the state it waits for.
WaiterObserves(c) ==
    /\ WaiterPoll(c)
    /\ provState = WaiterState(call[c].op)

\* What keeps an invocation moving: the mutating call is a blocking request
\* that comes back (with a response or an exception); the waiter polls again
\* and again, so it sees a target state that stays; and the provider brings
\* a transitional state to its settled state.  Nothing obliges the waiter to
\* give up, nor the caller to call.
FairSingle ==
    /\ WF_vars(Mutate(SingleCaller))
    /\ WF_vars(WaiterObserves(SingleCaller))
    /\ WF_vars(ProviderSettle)

SpecSingleFair == Init /\ [][NextSingle]_vars /\ FairSingle

InitCreate ==
    /\ LifecycleUnused
    /\ crt = IdleCreate
    /\ minted = <<>>
    /\ wire = {}
    /\ launched = <<>>
    /\ instState = "none"
    /\ EntryUnused
    /\ ReportsUnused

NextCreate ==
    \/ \E cfg \in Configs : CreateInvoke(cfg)
    \/ RunInstances
    \/ WaitUntilRunning
    \/ Reload
    \/ InstanceMoves

SpecCreate == InitCreate /\ [][NextCreate]_vars

\* Every entry point is a run of its own: a request with its inputs.
InitEntry ==
    /\ LifecycleUnused
    /\ CreateUnused
    /\ ReportsUnused
    /\ \E p \in EntryPoints, cf \in CredFaults, rg \in BOOLEAN,
          sr \in BOOLEAN, po \in BOOLEAN, co \in BOOLEAN, ra \in BOOLEAN :
            ent = Request(p, cf, rg, sr, po, co, ra)

NextEntry ==
    \/ Prepare
    \/ Construct
    \/ Operate

SpecEntry == InitEntry /\ [][NextEntry]_vars

InitVolumes ==
    /\ LifecycleUnused
    /\ CreateUnused
    /\ EntryUnused
    /\ rep = <<>>
    /\ gate = <<>>
    /\ \E region \in VolumeRegions, status_filter \in StatusFilters :
            lst = VolumesStart(region, status_filter)

NextVolumes ==
    \/ VolumesPage
    \/ VolumesReturn

SpecVolumes == InitVolumes /\ [][NextVolumes]_vars

InitGate ==
    /\ LifecycleUnused
    /\ CreateUnused
    /\ EntryUnused
    /\ lst = <<>>
    /\ rep = <<>>
    /\ \E auth_user \in EnvValues, auth_pass \in EnvValues, auth \in Presented :
            gate = GateRequest(auth_user, auth_pass, auth)

NextGate ==
    \/ BeforeRequest

SpecGate == InitGate /\ [][NextGate]_vars

InitInventory ==
    /\ LifecycleUnused
    /\ CreateUnused
    /\ EntryUnused
    /\ lst = <<>>
    /\ gate = <<>>
    /\ \E regions \in RegionArgs : rep = InventoryStart(regions)

NextInventory ==
    \/ TargetRegions
    \/ RegionClient
    \/ RegionPage
    \/ RegionDone

SpecInventory == InitInventory /\ [][NextInventory]_vars

InitList ==
    /\ LifecycleUnused
    /\ CreateUnused
    /\ EntryUnused
    /\ rep = <<>>
    /\ gate = <<>>
    /\ \E region \in Regions, tags_filter \in TagFilters,
          states \in StateFilters :
            lst = ListStart(region, tags_filter, states)

NextList ==
    \/ ListPage
    \/ ListReturn

SpecList == InitList /\ [][NextList]_vars

InitWaste ==
    /\ LifecycleUnused
    /\ CreateUnused
    /\ EntryUnused
    /\ lst = <<>>
    /\ gate = <<>>
    /\ \E regions \in TargetRegionLists, thr \in Thresholds :
            rep = WasteStart(regions, thr)

NextWaste ==
    \/ ScanVolumes
    \/ ScanInstance
    \/ NextRegion

SpecWaste == InitWaste /\ [][NextWaste]_vars

(***************************************************************************)
(* Properties of the lifecycle methods (checked under Spec).               *)
(***************************************************************************)
\* The target, the matching transitional state and the source states of
\* each operation's edge, as spec.md section 4.1 names them.
TargetOf(op) ==
    CASE op = "stop" -> "stopped"
      [] op = "start" -> "running"
      [] op = "terminate" -> "terminated"

TransitionalOf(op) ==
    CASE op = "stop" -> "stopping"
      [] op = "start" -> "pending"
      [] op = "terminate" -> "shutting-down"

SourcesOf(op) ==
    CASE op = "stop" -> {"running"}
      [] op = "start" -> {"stopped"}
      [] op = "terminate" -> {"running", "stopped"}

Events(log) == {log[k] : k \in 1..Len(log)}

IsPrefix(a, b) == Len(a) <= Len(b) /\ \A k \in 1..Len(a) : a[k] = b[k]

MutateThenWait == <<"mutate", "wait", "waitok">>

\* An invocation that has read the state and gone on to anything.
HasRead(i) == i.op \in LifecycleOps /\ i.state \in InstanceStates

\* C1: when the state read is already the operation's target (stopped for
\* stop, running for start, terminated for terminate), the call has returned
\* that target state with a Message beginning with "Already", and has made
\* no mutating call and no wait.
C1_AlreadyInTarget ==
    \A c \in Callers :
        LET i == call[c]
        IN (HasRead(i) /\ i.state = TargetOf(i.op)) =>
              /\ i.pc = "done"
              /\ i.log = <<>>
              /\ i.res.kind = "ok"
              /\ i.res.State = TargetOf(i.op)
              /\ i.res.Message # NoMessage
              /\ Head(i.res.Message) = "Already"

C1_Witness ==
    \E c \in Callers :
        /\ call[c].op = "stop" /\ call[c].state = "stopped"
        /\ call[c].pc = "done" /\ call[c].res.kind = "ok"

\* C2: for stop and start, when the state read is neither the edge's source
\* nor its target nor the matching transitional state, the call has returned
\* the state it read, unchanged, with a "Not in ... state" Message, without
\* raising and without a mutating call.
C2_NotEligible ==
    \A c \in Callers :
        LET i == call[c]
        IN (/\ HasRead(i)
            /\ i.op \in {"stop", "start"}
            /\ i.state \notin SourcesOf(i.op)
                             \cup {TargetOf(i.op), TransitionalOf(i.op)}) =>
              /\ i.pc = "done"
              /\ i.log = <<>>
              /\ i.res.kind = "ok"
              /\ i.res.State = i.state
              /\ i.res.Message # NoMessage
              /\ Head(i.res.Message) = "Not"

C2_Witness ==
    \E c \in Callers :
        /\ call[c].op = "start" /\ call[c].state = "shutting-down"
        /\ call[c].pc = "done" /\ call[c].res.kind = "ok"

C4_TransitionalWaits ==
    \A c \in Callers :
        LET i == call[c]
        IN (HasRead(i) /\ i.state = TransitionalOf(i.op)) =>
              /\ "mutate" \notin Events(i.log)
              /\ IsPrefix(i.log, <<"wait", "waitok">>)
              /\ i.pc # "done" => i.todo = <<"wait">>
              /\ (i.pc = "done" /\ i.res.kind = "ok") =>
                    /\ i.log = <<"wait", "waitok">>
                    /\ i.seen = TargetOf(i.op)
                    /\ i.res.State = TargetOf(i.op)
                    /\ i.res.Message # NoMessage

C4_Witness ==
    \E c \in Callers :
        /\ call[c].op = "stop" /\ call[c].state = "stopping"
        /\ call[c].pc = "done" /\ call[c].res.kind = "ok"
        /\ call[c].seen = "stopped"

\* C5: when the state read is the edge's source state (running for stop,
\* stopped for start, either for terminate), the call makes the mutating
\* call exactly once and before the wait, and it returns State = target only
\* after the waiter observed the instance in the target state.
C5_MutateOnceThenWait ==
    \A c \in Callers :
        LET i == call[c]
        IN (HasRead(i) /\ i.state \in SourcesOf(i.op)) =>
              /\ IsPrefix(i.log, MutateThenWait)
              /\ i.log = <<>> => (i.pc = "run" /\ Head(i.todo) = "mutate")
              /\ (i.pc = "done" /\ i.res.kind = "ok") =>
                    /\ i.log = MutateThenWait
                    /\ i.seen = TargetOf(i.op)
                    /\ i.res.State = TargetOf(i.op)

C5_Witness ==
    \E c \in Callers :
        /\ call[c].op = "stop" /\ call[c].state = "running"
        /\ call[c].pc = "done" /\ call[c].res.kind = "ok"
        /\ call[c].res.State = "stopped"

\* The invocation is about to issue its mutating call.
AboutToMutate(i) == i.pc = "run" /\ i.todo # <<>> /\ Head(i.todo) = "mutate"

\* C18: nothing stands between the state read and the mutating call, and
\* nothing looks at the instance again: an invocation that has read a state
\* it acts on has the mutating call as its very next provider call, whatever
\* the provider's state has become meanwhile, and after it only the wait;
\* it ends with the target state, or with what the provider or the waiter
\* raised, never with a report of the race.
C18_NoCheckBeforeMutate ==
    \A c \in Callers :
        LET i == call[c]
        IN /\ i.pc = "run" =>
                 /\ i.todo \in {<<"mutate", "wait">>, <<"wait">>}
                 /\ AboutToMutate(i) => i.log = <<>>
           /\ "mutate" \in Events(i.log) => IsPrefix(i.log, MutateThenWait)
           /\ i.res.kind \in {"none", "ok", "AWSAuthError", "OperationError",
                               "ClientError", "WaiterError"}
           /\ (i.pc = "done" /\ i.res.kind = "ok"
                  /\ "mutate" \in Events(i.log)) =>
                 /\ i.res.State = TargetOf(i.op)
                 /\ i.res.Message = NoMessage

\* stop_instance and terminate_instance both read running.  The provider
\* accepted stop_instances, which it does not once an instance is shutting
\* down, so stop_instances came first; terminate_instances then reached an
\* instance no longer running, and terminate_instance returned terminated
\* all the same.
C18_Witness ==
    \E c, d \in Callers :
        /\ c # d
        /\ call[d].op = "stop" /\ call[d].state = "running"
        /\ call[d].log = <<"mutate", "wait">>
        /\ call[c].op = "terminate" /\ call[c].state = "running"
        /\ call[c].pc = "done" /\ call[c].res.kind = "ok"
        /\ call[c].log = MutateThenWait

\* C20: a result returned by stop, start or terminate carries a Message if
\* and only if the invocation issued no mutating call, and a result without
\* a Message has the operation's target state.
C20_MessageIffNoMutation ==
    \A c \in Callers :
        LET i == call[c]
        IN (i.pc = "done" /\ i.res.kind = "ok") =>
              /\ i.res.Message # NoMessage <=> "mutate" \notin Events(i.log)
              /\ i.res.Message = NoMessage => i.res.State = TargetOf(i.op)

C20_Witness ==
    \E c \in Callers :
        /\ call[c].op = "start"
        /\ call[c].pc = "done" /\ call[c].res.kind = "ok"
        /\ call[c].res.Message = NoMessage
        /\ call[c].log = MutateThenWait

(***************************************************************************)
(* Properties of a single caller (checked under SpecSingle).               *)
(***************************************************************************)
\* C19: an invocation that reads terminated issues no mutating call (it
\* returns at once, with a Message); and with a single caller no invocation
\* is ever about to issue its mutating call while the instance is
\* terminated, which it remains once the caller has observed it so.
C19_TerminatedIsTerminal ==
    LET i == call[SingleCaller]
    IN /\ (HasRead(i) /\ i.state = "terminated") =>
              /\ i.log = <<>>
              /\ i.pc = "done"
              /\ i.res.kind = "ok"
              /\ i.res.Message # NoMessage
       /\ AboutToMutate(i) => provState # "terminated"
       /\ (i.state = "terminated" \/ i.seen = "terminated") =>
              provState = "terminated"

C19_Witness ==
    /\ call[SingleCaller].op = "start"
    /\ call[SingleCaller].state = "terminated"
    /\ call[SingleCaller].pc = "done"
    /\ call[SingleCaller].res.kind = "ok"
    /\ call[SingleCaller].log = <<>>

(***************************************************************************)
(* Properties of create_instance (checked under SpecCreate).               *)
(***************************************************************************)
TokensDistinct ==
    \A j, k \in 1..Len(minted) : j # k => minted[j] # minted[k]

\* The invocation in progress bears the token minted for it, calls
\* run_instances at most once, and only its tokens reach the provider.
OneRunRequestEach ==
    /\ crt.pc # "idle" => (Len(minted) > 0 /\ crt.token = minted[Len(minted)])
    /\ IsPrefix(crt.log, <<"run", "wait", "reload">>)
    /\ crt.log = <<>> => crt.pc \in {"idle", "run"}
    /\ wire \subseteq Events(minted)
    /\ crt.sends # "none" => crt.token \in wire

\* C6 as claimed: every invocation mints a token distinct from every other
\* invocation's and submits one run request bearing it, and the provider,
\* deduplicating on the token, has created no more instances than distinct
\* tokens were submitted.
C6_InstancesAtMostTokens ==
    /\ TokensDistinct
    /\ OneRunRequestEach
    /\ NumInstances <= Cardinality(wire)

\* C6 as amended: the tokens are distinct and each invocation submits one
\* run request bearing its own; the provider makes at most one launch per
\* distinct token submitted, of at most that request's MaxCount instances,
\* however often the request is resubmitted (one instance per token only
\* where MaxCount is 1).
C6_OneLaunchPerToken ==
    /\ TokensDistinct
    /\ OneRunRequestEach
    /\ DOMAIN launched \subseteq wire
    /\ Cardinality(DOMAIN launched) <= Len(minted)
    /\ \A t \in DOMAIN launched : Len(launched[t].ids) <= launched[t].MaxCount
    /\ (\A t \in DOMAIN launched : launched[t].MaxCount = 1) =>
            NumInstances <= Cardinality(wire)

\* The second invocation's request was resubmitted with its token, and the
\* provider holds one launch for each of the two tokens.
C6_Witness ==
    /\ Len(minted) = 2
    /\ crt.sends = "again"
    /\ crt.gotResp
    /\ Cardinality(DOMAIN launched) = 2
    /\ Len(launched[crt.token].ids) = 1

\* C7: when the run response holds zero instances, create_instance has
\* failed with OperationError, having made no wait and no re-read (and not
\* having indexed the empty list).
C7_EmptyResponseIsOperationError ==
    (crt.gotResp /\ crt.resp = <<>>) =>
        /\ crt.pc = "done"
        /\ crt.res.kind = "OperationError"
        /\ crt.log = <<"run">>

C7_Witness ==
    /\ crt.gotResp /\ crt.resp = <<>>
    /\ crt.pc = "done" /\ crt.res.kind = "OperationError"

\* C8: when ImageId or InstanceType is missing from the instance section,
\* create_instance never calls run_instances, and fails with ConfigError.
C8_ValidatedBeforeSubmission ==
    (crt.pc # "idle" /\ (~crt.cfg.ImageId \/ ~crt.cfg.InstanceType)) =>
        /\ "run" \notin Events(crt.log)
        /\ crt.pc = "done" => crt.res.kind = "ConfigError"

\* C9: a successful create_instance has submitted the run request, taken
\* the first instance of the response, waited until the waiter observed it
\* running, re-read it and returned, in that order; the State it returns is
\* the one the re-read observed.
C9_ReturnsRereadState ==
    /\ IsPrefix(crt.log, <<"run", "wait", "reload">>)
    /\ (crt.pc = "done" /\ crt.res.kind = "ok") =>
          /\ crt.log = <<"run", "wait", "reload">>
          /\ crt.gotResp
          /\ crt.res.InstanceId = crt.resp[1]
          /\ crt.waitSaw = "running"
          /\ crt.reloaded \in InstanceStates
          /\ crt.res.State = crt.reloaded

\* A successful return whose State is neither the run response's nor the
\* one the waiter saw: the instance changed before the re-read.
C9_Witness ==
    /\ crt.pc = "done" /\ crt.res.kind = "ok"
    /\ crt.respState = "pending"
    /\ crt.res.State = "stopping"

(***************************************************************************)
(* Properties of the entry points (checked under SpecEntry).               *)
(***************************************************************************)
\* C10 as claimed: with credentials missing, every entry point fails with
\* AWSAuthError and no other error first, whatever its other inputs.
C10_AuthErrorFirst ==
    (ent.pc = "done" /\ ent.credFault # "none") => ent.err = "AWSAuthError"

\* C10 as amended: with the credentials found missing at client
\* construction, every entry point that reaches the construction of the
\* manager, with a region and a profile the SDK can resolve, fails with
\* AWSAuthError and nothing else first.  (instance create with a config
\* file load_config rejects fails with ValueError first; a Flask route
\* without a region fails with OperationError first.)
C10_AuthErrorAtConstruction ==
    (/\ ent.pc = "done"
     /\ ent.credFault = "construct"
     /\ ~(ent.surface = "cli" /\ ent.op = "create_instance" /\ ~ent.configOk)
     /\ ~(ent.surface = "flask" /\ ~ent.regionGiven)
     /\ (ent.regionGiven \/ ent.sdkRegion)
     /\ ent.profileOk) =>
        /\ ent.err = "AWSAuthError"
        /\ ~ent.built

C10_Witness ==
    /\ ent.pc = "done"
    /\ ent.credFault = "construct"
    /\ ent.surface = "cli" /\ ent.op = "create_instance" /\ ent.configOk
    /\ ent.err = "AWSAuthError"

\* C11: a provider fault raised at any step of an orchestrator operation
\* (the manager has been built, and one of its methods is running) reaches
\* the caller only as AWSAuthError or as OperationError; no raw provider
\* exception leaves the method.
C11_OnlyAuthOrOperationError ==
    (ent.pc = "done" /\ ent.built /\ ent.err # "none") =>
        ent.err \in {"AWSAuthError", "OperationError"}

\* C16: for every CLI command, an AWSAuthError or OperationError raised
\* anywhere in the command, manager construction included, is handled: its
\* message is echoed to the error stream and the command exits non-zero
\* without printing a result.
C16_CliHandlesErrors ==
    (/\ ent.pc = "done"
     /\ ent.surface = "cli"
     /\ ent.err \in {"AWSAuthError", "OperationError"}) =>
        ent.out = "handled"

(***************************************************************************)
(* Properties of find_wasteful_resources (checked under SpecWaste).        *)
(***************************************************************************)
Flagged(x) ==
    \E k \in 1..Len(rep.report.idle_instances) :
        rep.report.idle_instances[k].InstanceId = x.InstanceId

\* C12: an instance the report has scanned is in idle_instances if and only
\* if it is running, has at least one datapoint, and the mean of its
\* datapoints is strictly below the threshold (a mean equal to it is not
\* flagged); it is listed there once, under its region; orphaned_volumes
\* holds available volumes only, never an instance.
C12_IdleIffRunningAndBelow ==
    rep.res \in {"none", "ok"} =>
        /\ \A j \in 1..Len(rep.scanned) :
              LET x == rep.scanned[j]
              IN Flagged(x) <=>
                    /\ x.State = "running"
                    /\ Len(x.points) >= 1
                    /\ Sum(x.points) < rep.idle_cpu_threshold * Len(x.points)
        /\ \A k \in 1..Len(rep.report.idle_instances) :
              LET f == rep.report.idle_instances[k]
              IN /\ f.InstanceId \in 1..Len(rep.scanned)
                 /\ f.Region = rep.scanned[f.InstanceId].Region
                 /\ \A m \in 1..Len(rep.report.idle_instances) :
                        rep.report.idle_instances[m].InstanceId = f.InstanceId
                            => m = k
        /\ \A k \in 1..Len(rep.report.orphaned_volumes) :
              /\ rep.report.orphaned_volumes[k].VolumeId = "vol-1"
              /\ rep.report.orphaned_volumes[k].State = "available"

\* A returned report that flags one running instance and leaves out a
\* running one whose mean equals the threshold and one without datapoints.
C12_Witness ==
    /\ rep.res = "ok"
    /\ rep.idle_cpu_threshold = 5
    /\ Len(rep.scanned) = 2
    /\ rep.scanned[1].State = "running" /\ rep.scanned[1].points = <<4, 6>>
    /\ ~Flagged(rep.scanned[1])
    /\ rep.scanned[2].State = "running" /\ rep.scanned[2].points = <<4>>
    /\ Flagged(rep.scanned[2])

(***************************************************************************)
(* Properties of list_instances (checked under SpecList).                  *)
(***************************************************************************)
\* The instances of the region the arguments ask for.
Wanted ==
    {i \in 1..Len(lst.region) :
        /\ \A k \in 1..Len(lst.tags_filter) :
              <<lst.tags_filter[k][1], lst.tags_filter[k][2]>>
                  \in lst.region[i].tags
        /\ lst.states = <<>> \/ lst.region[i].State \in Events(lst.states)}

ResultIds == {lst.results[k].InstanceId : k \in 1..Len(lst.results)}

\* C13: one tag:KEY filter per pair and, when states are given, one
\* instance-state-name filter are sent; the records collected are instances
\* that carry every given tag with its value and are in one of the given
\* states, none twice; the list returned holds exactly those instances (all
\* instances of the region when no filter is given).
C13_ExactlyTheMatching ==
    /\ Len(lst.filters) =
          Len(lst.tags_filter) + (IF lst.states = <<>> THEN 0 ELSE 1)
    /\ \A k \in 1..Len(lst.tags_filter) :
          /\ lst.filters[k].Name = <<"tag", lst.tags_filter[k][1]>>
          /\ lst.filters[k].Values = <<lst.tags_filter[k][2]>>
    /\ lst.states # <<>> =>
          /\ lst.filters[Len(lst.filters)].Name = <<"instance-state-name">>
          /\ lst.filters[Len(lst.filters)].Values = lst.states
    /\ ResultIds \subseteq Wanted
    /\ Cardinality(ResultIds) = Len(lst.results)
    /\ \A k \in 1..Len(lst.results) :
          lst.results[k].State = lst.region[lst.results[k].InstanceId].State
    /\ lst.res = "ok" => ResultIds = Wanted
    /\ (lst.res = "ok" /\ lst.filters = <<>>) =>
          ResultIds = 1..Len(lst.region)

\* Name=web and running asked for: the running web instance is returned,
\* the stopped one is not.
C13_Witness ==
    /\ lst.res = "ok"
    /\ lst.tags_filter = <<<<"Name", "web">>>>
    /\ lst.states = <<"running">>
    /\ lst.region[1].State = "stopped"
    /\ <<"Name", "web">> \in lst.region[1].tags
    /\ ResultIds = {2}

(***************************************************************************)
(* Properties of generate_inventory_report (checked under SpecInventory).  *)
(***************************************************************************)
CredentialFaults == {"NoCredentialsError", "AWSAuthError"}

\* C14: the regions are visited one at a time in the order of the target
\* list; every record bears the region it was read from, and the records
\* follow the order of the regions; once a credential fault (or any other)
\* has been met in a region the report has ended with an error and the
\* caller has received no list, and a list the caller receives covers
\* every target region.
C14_SequentialAndAllOrNothing ==
    /\ IsPrefix(rep.opened, rep.target)
    /\ rep.pc \in {"pages", "done"} /\ rep.fault = "none" =>
          Len(rep.opened) = rep.at
    /\ \A k \in 1..Len(rep.results) :
          /\ rep.results[k].Region = rep.results[k].readFrom
          /\ rep.results[k].Region = rep.target[rep.results[k].pos]
          /\ \A j \in 1..k : rep.results[j].pos <= rep.results[k].pos
    /\ rep.fault # "none" =>
          /\ rep.pc = "done"
          /\ rep.res \notin {"none", "ok"}
          /\ ~rep.returned.given
    /\ rep.fault \in CredentialFaults => rep.res \in CredentialFaults
    /\ rep.returned.given =>
          /\ rep.res = "ok"
          /\ rep.opened = rep.target
          /\ rep.returned.records = rep.results

\* A credential fault in the second region, after a record of the first
\* had been collected: nothing is returned.
C14_Witness ==
    /\ rep.pc = "done"
    /\ rep.res = "AWSAuthError"
    /\ rep.at = 2
    /\ Len(rep.results) = 1
    /\ ~rep.returned.given

(***************************************************************************)
(* Properties of the basic-auth gate (checked under SpecGate).             *)
(***************************************************************************)
\* The request presents exactly the configured username and password.
PresentsConfigured ==
    /\ gate.auth.given
    /\ gate.auth.username = gate.auth_user
    /\ gate.auth.password = gate.auth_pass

C17_AttachedInstancesInOrder ==
    \A n \in 1..Len(lst.results) :
        LET r == lst.results[n]
            attachments == lst.region[r.VolumeId]
        IN /\ Len(r.AttachedInstances) = Len(attachments)
           /\ \A k \in 1..Len(attachments) :
                 r.AttachedInstances[k] = attachments[k].InstanceId
           /\ attachments = <<>> => r.AttachedInstances = <<>>

\* A returned list with a volume attached to i-2 and then i-1, and a
\* volume attached to nothing.
C17_Witness ==
    /\ lst.res = "ok"
    /\ Len(lst.results) = 2
    /\ lst.results[1].AttachedInstances = <<"i-2", "i-1">>
    /\ lst.results[2].AttachedInstances = <<>>

(***************************************************************************)
(* Termination of a single caller's invocations (checked under             *)
(* SpecSingleFair).                                                        *)
(***************************************************************************)
\* C21: with a single caller, every invocation of stop_instance,
\* start_instance or terminate_instance that is under way after reading the
\* state, whatever that state was, eventually ends: it returns its
\* dictionary or leaves with an exception.
C21_EveryInvocationEnds ==
    (call[SingleCaller].pc = "run") ~> (call[SingleCaller].pc = "done")

\* terminate_instance read pending, was accepted, waited while the provider
\* went through shutting-down, and returned terminated.
C21_Witness ==
    /\ call[SingleCaller].op = "terminate"
    /\ call[SingleCaller].state = "pending"
    /\ call[SingleCaller].pc = "done"
    /\ call[SingleCaller].res.kind = "ok"
    /\ call[SingleCaller].res.State = "terminated"
    /\ call[SingleCaller].seen = "terminated"
    /\ call[SingleCaller].log = MutateThenWait

====
